---- MODULE Spec2Model ----
(***************************************************************************)
(* Model of the veo package of kauntdewn1/neo-prompts:                     *)
(*   veo/core/client.py               VEOClient (single and batch calls)   *)
(*   veo/core/video_generator_api.py  VideoGeneratorAPI (SVD -> LTX chain) *)
(*   veo/core/svd_client.py           SVDClient                            *)
(*   veo/core/ltx_video_client.py     LTXVideoClient                       *)
(*   veo/models/config.py             VEOConfig, VideoRequest              *)
(*                                                                         *)
(* The program runs on one asyncio event loop.  A task can be descheduled  *)
(* only at an await, so the code between two awaits is one action.  The    *)
(* model lets the loop switch tasks at every await of a provider coroutine *)
(* (initialize_pipeline, _generate_single_video); the schedules in which   *)
(* these coroutines return without suspending are among the behaviours.    *)
(* asyncio.Semaphore is modelled as a counting semaphore: acquire takes a  *)
(* permit when one is free and waits otherwise, release returns it.        *)
(* Failures are exceptions derived from Exception, the class every handler *)
(* of the package catches.                                                 *)
(***************************************************************************)
EXTENDS Integers, Sequences, FiniteSets, Bags, TLC

(* ---- bounds of the model ---- *)
MaxRequests == 2
MaxVideos == 2
MaxConcurrent == 2
MaxTime == 1
MaxDays == 1
MaxPolls == 4
MaxSeconds == 60

(* ---- constants of the program ---- *)
PromptMinLength == 10
PromptMaxLength == 10000
DurationMin == 1
DurationMax == 8
NumberOfVideosMin == 1
NumberOfVideosMax == 4
RetryAttemptsDefault == 3
RetryDelayDefault == 30
DefaultDurationDefault == 8
DefaultDurationMax == 8
DefaultNumberOfVideosDefault == 1
DefaultNumberOfVideosMax == 4
MaxConcurrentOperationsDefault == 3
MaxConcurrentOperationsMax == 10
RetryAttemptsMax == 10
RetryDelayMax == 300
SecondsPerDay == 86400
DaysOldDefault == 7
PollInterval == 20
ProgressInitializing == 10
ProgressGenerating == 25
ProgressSpan == 50
ProgressCompleted == 100
TargetFps == 30
FrameStep == 8
MinFrames == 9
MaxFrames == 257

VARIABLES
    config,        \* VEOConfig: max_concurrent_operations, retry_attempts, retry_delay
    call,          \* which entry point of VEOClient is running: "none", "single", "batch"
    requests,      \* the VideoRequests of the call, in input order
    semaphore,     \* value of the asyncio.Semaphore of the batch
    max_concurrent,\* the max_concurrent argument of batch_generate_videos
    pc,            \* position of the coroutine handling request i
    video_paths,   \* video_paths of the provider call running for request i
    svdOut,        \* outcome of svd_client.generate_video_async for request i
    ltxOut,        \* outcome of ltx_client.generate_video_async for request i
    apiOut,        \* outcome of VideoGeneratorAPI.generate_video_async for request i
    clientOut,     \* outcome of VEOClient.generate_video_async for request i
    invoked,       \* how many times each provider was called for request i
    completed,     \* requests in the order their generations completed
    batchOut,      \* outcome of batch_generate_videos
    svd_pipeline,  \* SVDClient.pipeline
    ltx_pipeline,  \* LTXVideoClient.pipeline
    construct,     \* the VideoRequest(...) construction under study and its outcome
    gOp,           \* which entry point of VideoGenerator is running
    gArgs,         \* the arguments it was called with
    gRequests,     \* the VideoRequests that call built, in prompt order
    gUris,         \* what the client handed back for request i
    gPaths,        \* local_paths collected so far for request i
    gOut,          \* outcome of the VideoGenerator call
    gInvoked,      \* provider calls made on behalf of the VideoGenerator call
    gcs_bucket,    \* config.gcs_bucket
    gcs_client,    \* whether VideoGenerator.gcs_client is set
    now,           \* the clock, in seconds
    written,       \* paths of the files written so far, in the order of the writes
    downloads,     \* the _download_video calls made so far and what each did
    environ,       \* os.environ
    veoConfig,     \* the VEOConfig construction under study and its outcome
    cli,           \* how far the generate command of the CLI got
    files,         \* the entries of config.output_dir: name -> file or nothing
    cleanup,       \* the cleanup_old_videos call under study and what it returned
    server,        \* the video operation as the cloud service holds it
    script,        \* scripts/generate_video.py: position, last operation seen, counters
    calc,          \* the _calculate_frames call under study and what it returned
    progress_callback, \* whether the caller passed a progress_callback
    progress       \* the progress values delivered to progress_callback so far

generatorVars == <<gOp, gArgs, gRequests, gUris, gPaths, gOut, gInvoked, gcs_bucket, gcs_client,
                   now, written, downloads>>

configVars == <<environ, veoConfig, cli>>

cleanupVars == <<files, cleanup>>

pollVars == <<server, script>>

framesVars == <<calc>>

progressVars == <<progress_callback, progress>>

auxVars == <<generatorVars, configVars, cleanupVars, pollVars, framesVars>>

vars == <<config, call, requests, semaphore, max_concurrent, pc, video_paths, svdOut, ltxOut,
          apiOut, clientOut, invoked, completed, batchOut, svd_pipeline,
          ltx_pipeline, construct, auxVars, progressVars>>

genVars == <<config, call, requests, semaphore, max_concurrent, pc, video_paths, svdOut, ltxOut,
             apiOut, clientOut, invoked, completed, batchOut, svd_pipeline,
             ltx_pipeline>>

\* what the steps of VideoGenerator leave alone
generatorFrame == <<genVars, construct, configVars, cleanupVars, pollVars, framesVars,
                    progressVars>>

\* what the steps around VEOConfig leave alone
configFrame == <<genVars, construct, generatorVars, cleanupVars, pollVars, framesVars,
                 progressVars>>

\* what cleanup_old_videos leaves alone
cleanupFrame == <<genVars, construct, generatorVars, configVars, pollVars, framesVars,
                  progressVars>>

\* what the cloud-API script leaves alone
pollFrame == <<genVars, construct, generatorVars, configVars, cleanupVars, framesVars,
               progressVars>>

\* what a call of _calculate_frames leaves alone
framesFrame == <<genVars, construct, generatorVars, configVars, cleanupVars, pollVars,
                 progressVars>>

(* ---- values ---- *)
Providers == {"veo", "svd", "ltx"}

\* The outcome of a call: still running, a returned list of URIs, or a raised exception.
Pending == [kind |-> "pending", uris |-> <<>>]
Returned(uris) == [kind |-> "list", uris |-> uris]
Raised == [kind |-> "exception", uris |-> <<>>]

\* f"file://{video_path.absolute()}", video_path being
\* output_dir / f"svd_video_{timestamp}_{video_index}.mp4" (ltx_video_... for
\* LTX-Video): the URI is given by the provider that wrote it and video_index
Uri(provider, video_index) == [provider |-> provider, index |-> video_index]

\* Optional[int] argument max_concurrent
NoneArg == [given |-> FALSE, value |-> 0]
IntArg(n) == [given |-> TRUE, value |-> n]

Tasks == 1..Len(requests)

RequestSet == [number_of_videos : 1..MaxVideos]

RECURSIVE SeqsUpTo(_, _)
SeqsUpTo(S, n) ==
    IF n = 0 THEN {<<>>}
    ELSE LET shorter == SeqsUpTo(S, n - 1)
         IN shorter \cup {Append(s, x) : s \in {t \in shorter : Len(t) = n - 1}, x \in S}


(* ---- VideoRequest construction (veo/models/config.py) ---- *)

NoneStr == [given |-> FALSE, value |-> <<>>]
Str(chars) == [given |-> TRUE, value |-> chars]

\* str.startswith
StartsWith(s, prefix) ==
    /\ Len(s) >= Len(prefix)
    /\ \A k \in 1..Len(prefix) : s[k] = prefix[k]

GsPrefix == <<"g", "s", ":", "/", "/">>

AspectRatio == {"16:9", "9:16", "1:1"}

\* a length check that excludes the minimum itself
PromptFieldOkExclusive(prompt_len) ==
    prompt_len > PromptMinLength /\ prompt_len <= PromptMaxLength

\* Field(..., min_length=10, max_length=10000) on prompt, given by its length
PromptFieldOk(prompt_len) ==
    prompt_len >= PromptMinLength /\ prompt_len <= PromptMaxLength

\* Field(8, ge=1, le=8) on duration
DurationFieldOk(duration) ==
    duration >= DurationMin /\ duration <= DurationMax

\* Field(1, ge=1, le=4) on number_of_videos
NumberOfVideosFieldOk(number_of_videos) ==
    number_of_videos >= NumberOfVideosMin /\ number_of_videos <= NumberOfVideosMax

\* aspect_ratio: AspectRatio (enum membership)
AspectRatioFieldOk(aspect_ratio) == aspect_ratio \in AspectRatio

\* a validator that does not look at the file system
validate_image_path_unchecked(image_path) == TRUE

\* validate_image_path: if v and not v.exists(): raise
\* image_path is "None", "exists" (a file that exists) or "missing"
PathExists(image_path) == image_path = "exists"
validate_image_path(image_path) == ~(image_path # "None" /\ ~PathExists(image_path))

\* validate_gcs_uri: if v and not v.startswith("gs://"): raise
\* (v is falsy when it is None or the empty string)
validate_gcs_uri(v) ==
    ~(v.given /\ Len(v.value) > 0 /\ ~StartsWith(v.value, GsPrefix))

\* VideoRequest(**args): pydantic validates every field and raises one
\* ValidationError when any of them fails
VideoRequestOk(args) ==
    /\ PromptFieldOk(args.prompt_len)
    /\ validate_image_path(args.image_path)
    /\ AspectRatioFieldOk(args.aspect_ratio)
    /\ DurationFieldOk(args.duration)
    /\ NumberOfVideosFieldOk(args.number_of_videos)
    /\ validate_gcs_uri(args.output_gcs_uri)

PromptLengths == {0, PromptMinLength - 1, PromptMinLength, PromptMinLength + 1,
                  PromptMaxLength - 1, PromptMaxLength, PromptMaxLength + 1}
Durations == (DurationMin - 1)..(DurationMax + 1)
NumbersOfVideos == (NumberOfVideosMin - 1)..(NumberOfVideosMax + 1)
ImagePaths == {"None", "exists", "missing"}
AspectRatioInputs == AspectRatio \cup {"4:3"}
GcsUris == {NoneStr, Str(<<>>), Str(GsPrefix \o <<"b">>), Str(<<"g", "s">>),
            Str(<<"h", "t", "t", "p", ":", "/", "/", "b">>)}

ConstructArgs ==
    [prompt_len : PromptLengths, image_path : ImagePaths,
     aspect_ratio : AspectRatioInputs, duration : Durations,
     number_of_videos : NumbersOfVideos, output_gcs_uri : GcsUris]

NoConstruct == [outcome |-> "none"]

\* VideoRequest(...) returns the request object
ConstructAccepted(args) ==
    /\ construct = NoConstruct
    /\ VideoRequestOk(args)
    /\ construct' = [outcome |-> "request", args |-> args]
    /\ UNCHANGED <<genVars, auxVars, progressVars>>

\* VideoRequest(...) raises ValidationError
ConstructRejected(args) ==
    /\ construct = NoConstruct
    /\ ~VideoRequestOk(args)
    /\ construct' = [outcome |-> "ValidationError", args |-> args]
    /\ UNCHANGED <<genVars, auxVars, progressVars>>

(* ---- state after VEOClient(config) ---- *)

Configs ==
    {[max_concurrent_operations |-> k, retry_attempts |-> r[1], retry_delay |-> r[2]] :
        k \in 1..MaxConcurrent, r \in {<<1, 1>>, <<RetryAttemptsDefault, RetryDelayDefault>>}}

NoBatchOut == [kind |-> "pending", value |-> <<>>]

\* os.environ entries: a variable is unset or has a string value
EnvUnset == [set |-> FALSE, value |-> ""]
EnvValue(value) == [set |-> TRUE, value |-> value]

EnvNames == {"GOOGLE_API_KEY", "GOOGLE_CLOUD_PROJECT", "DEFAULT_ASPECT_RATIO",
             "DEFAULT_DURATION", "VEO_DEFAULT_ASPECT_RATIO", "VEO_DEFAULT_DURATION"}

NoVEOConfig == [call |-> "none"]

\* no variable set, no VEOConfig built, the CLI not started
ConfigIdle ==
    /\ environ = [name \in EnvNames |-> EnvUnset]
    /\ veoConfig = NoVEOConfig
    /\ cli = "none"

\* an entry of the output directory: a file with its st_mtime, or nothing
NoFile == [exists |-> FALSE, mtime |-> 0]
File(mtime) == [exists |-> TRUE, mtime |-> mtime]

\* names of the model, each given by its stem and its suffixes
FileNames == {<<"old_video", ".mp4">>, <<"video_0_0", ".mp4">>, <<"notes", ".txt">>,
              <<"clip", ".mp4", ".part">>}

NoCleanup == [called |-> FALSE]

\* an empty output directory, cleanup_old_videos not called
CleanupIdle ==
    /\ files = [name \in FileNames |-> NoFile]
    /\ cleanup = NoCleanup

\* the script has not been started
ScriptIdle ==
    /\ server = "none"
    /\ script = [pc |-> "start", observed |-> "none", number_of_videos |-> 0,
                 polls |-> 0, slept |-> 0, saved |-> 0]

\* the outcome of a VideoGenerator call: still running, the returned paths,
\* or the exception it raised
GenPending == [kind |-> "pending", value |-> <<>>, error |-> ""]
GenReturned(paths) == [kind |-> "list", value |-> paths, error |-> ""]
GenRaised(error) == [kind |-> "exception", value |-> <<>>, error |-> error]

\* _calculate_frames has not been called
NoCalc == [called |-> FALSE]

FramesIdle == calc = NoCalc

\* no VideoGenerator in use: no bucket, no call, nothing written
GeneratorIdle ==
    /\ gOp = "none"
    /\ gArgs = <<>>
    /\ gRequests = <<>>
    /\ gUris = <<>>
    /\ gPaths = <<>>
    /\ gOut = GenPending
    /\ gInvoked = 0
    /\ gcs_bucket = NoneStr
    /\ gcs_client = FALSE
    /\ now = 0
    /\ written = EmptyBag
    /\ downloads = <<>>

\* a VEOClient on which no call has been made
ClientIdle ==
    /\ call = "none"
    /\ requests = <<>>
    /\ semaphore = 0
    /\ max_concurrent = NoneArg
    /\ pc = <<>>
    /\ video_paths = <<>>
    /\ svdOut = <<>>
    /\ ltxOut = <<>>
    /\ apiOut = <<>>
    /\ clientOut = <<>>
    /\ invoked = <<>>
    /\ completed = <<>>
    /\ batchOut = NoBatchOut
    /\ svd_pipeline = "None"
    /\ ltx_pipeline = "None"
    /\ progress_callback = FALSE
    /\ progress = <<>>

\* VEOClient(config) with the default retry settings, no call made
DefaultClient ==
    /\ config = [max_concurrent_operations |-> MaxConcurrent,
                 retry_attempts |-> RetryAttemptsDefault,
                 retry_delay |-> RetryDelayDefault]
    /\ ClientIdle
    /\ construct = NoConstruct

Init ==
    /\ config \in Configs
    /\ ClientIdle
    /\ construct = NoConstruct
    /\ GeneratorIdle
    /\ ConfigIdle
    /\ CleanupIdle
    /\ ScriptIdle
    /\ FramesIdle


(* ---- VideoGeneratorAPI and VEOClient: what a finished generation hands up ---- *)

\* a chain that hands up the LTX-Video outcome whatever SVD did
ApiOutcomeFromLtx(svd, ltx) == ltx

\* a chain that answers [] when the last provider has failed too
ApiOutcomeSwallowing(svd, ltx) ==
    IF svd.kind = "list" THEN svd
    ELSE IF ltx.kind = "exception" THEN Returned(<<>>) ELSE ltx

\* VideoGeneratorAPI.generate_video_async: the SVD list when SVD returned,
\* otherwise whatever the LTX-Video call did (its list, or its exception
\* logged and re-raised by the outer handler)
ApiOutcome(svd, ltx) == IF svd.kind = "list" THEN svd ELSE ltx

\* a client that logs the failure and answers [] instead of re-raising
ClientOutcomeSwallowing(api) == Returned(api.uris)

\* VEOClient.generate_video_async: return video_uris, or log and re-raise
ClientOutcome(api) == IF api.kind = "exception" THEN Raised ELSE Returned(api.uris)

\* a limit that is one too large
ConcurrencyLimitOffByOne(arg) ==
    (IF arg.given /\ arg.value # 0 THEN arg.value ELSE config.max_concurrent_operations) + 1

\* max_concurrent = max_concurrent or self.config.max_concurrent_operations
ConcurrencyLimit(arg) ==
    IF arg.given /\ arg.value # 0 THEN arg.value ELSE config.max_concurrent_operations

\* a semaphore whose permits are never given back
ReleaseNothing == semaphore

\* async with semaphore: __aexit__ releases the permit (batch calls only)
Release == IF call = "batch" THEN semaphore + 1 ELSE semaphore

\* a client that submits a failed request again while retry_attempts allows
CompleteWithRetry(i, svd, ltx) ==
    IF ApiOutcome(svd, ltx).kind = "exception" /\ invoked[i].svd < config.retry_attempts
    THEN /\ pc' = [pc EXCEPT ![i] = "svd_init"]
         /\ invoked' = [invoked EXCEPT ![i].svd = @ + 1]
         /\ svdOut' = [svdOut EXCEPT ![i] = Pending]
         /\ ltxOut' = [ltxOut EXCEPT ![i] = Pending]
         /\ video_paths' = [video_paths EXCEPT ![i] = <<>>]
         /\ UNCHANGED <<apiOut, clientOut, completed, semaphore>>
    ELSE /\ svdOut' = [svdOut EXCEPT ![i] = svd]
         /\ ltxOut' = [ltxOut EXCEPT ![i] = ltx]
         /\ apiOut' = [apiOut EXCEPT ![i] = ApiOutcome(svd, ltx)]
         /\ clientOut' = [clientOut EXCEPT ![i] = ClientOutcome(ApiOutcome(svd, ltx))]
         /\ pc' = [pc EXCEPT ![i] = "done"]
         /\ video_paths' = [video_paths EXCEPT ![i] = <<>>]
         /\ completed' = Append(completed, i)
         /\ semaphore' = Release
         /\ UNCHANGED invoked

\* The generation of request i is over, with the SVD outcome svd and the
\* LTX-Video outcome ltx: the result goes up through VideoGeneratorAPI and
\* VEOClient, the semaphore is released and the task ends.
Complete(i, svd, ltx) ==
    /\ svdOut' = [svdOut EXCEPT ![i] = svd]
    /\ ltxOut' = [ltxOut EXCEPT ![i] = ltx]
    /\ apiOut' = [apiOut EXCEPT ![i] = ApiOutcome(svd, ltx)]
    /\ clientOut' = [clientOut EXCEPT ![i] = ClientOutcome(ApiOutcome(svd, ltx))]
    /\ pc' = [pc EXCEPT ![i] = "done"]
    /\ video_paths' = [video_paths EXCEPT ![i] = <<>>]
    /\ completed' = Append(completed, i)
    /\ semaphore' = Release
    /\ UNCHANGED invoked

\* a chain that gives up when SVD raises, without trying LTX-Video
FallbackSkipped(i) ==
    /\ svdOut' = [svdOut EXCEPT ![i] = Raised]
    /\ ltxOut' = ltxOut
    /\ apiOut' = [apiOut EXCEPT ![i] = Raised]
    /\ clientOut' = [clientOut EXCEPT ![i] = Raised]
    /\ pc' = [pc EXCEPT ![i] = "done"]
    /\ video_paths' = [video_paths EXCEPT ![i] = <<>>]
    /\ completed' = Append(completed, i)
    /\ semaphore' = Release
    /\ UNCHANGED invoked

\* except Exception as svd_error: fall back to LTX-Video
Fallback(i) ==
    /\ svdOut' = [svdOut EXCEPT ![i] = Raised]
    /\ pc' = [pc EXCEPT ![i] = "ltx_init"]
    /\ invoked' = [invoked EXCEPT ![i].ltx = @ + 1]
    /\ video_paths' = [video_paths EXCEPT ![i] = <<>>]
    /\ UNCHANGED <<ltxOut, apiOut, clientOut, completed, semaphore>>

\* VEOClient.generate_video_async(request) is entered: it calls
\* VideoGeneratorAPI.generate_video_async, which calls the SVD client first
Enter(i) ==
    /\ pc' = [pc EXCEPT ![i] = "svd_init"]
    /\ invoked' = [invoked EXCEPT ![i].svd = @ + 1]

NotInvoked == [p \in Providers |-> 0]

(* ---- entry points of VEOClient ---- *)

\* generate_video_sync / generate_video_async called for one request
generate_video_sync(request) ==
    /\ call = "none"
    /\ call' = "single"
    /\ requests' = <<request>>
    /\ pc' = <<"svd_init">>
    /\ invoked' = <<[NotInvoked EXCEPT !.svd = 1]>>
    /\ video_paths' = << <<>> >>
    /\ svdOut' = <<Pending>>
    /\ ltxOut' = <<Pending>>
    /\ apiOut' = <<Pending>>
    /\ clientOut' = <<Pending>>
    /\ UNCHANGED <<config, semaphore, max_concurrent, completed, batchOut, svd_pipeline,
                   ltx_pipeline, construct, auxVars, progressVars>>

\* batch_generate_videos(requests, max_concurrent) up to the await of gather
batch_generate_videos(reqs, arg) ==
    /\ call = "none"
    /\ call' = "batch"
    /\ requests' = reqs
    /\ max_concurrent' = arg
    /\ semaphore' = ConcurrencyLimit(arg)
    /\ pc' = [i \in 1..Len(reqs) |-> "created"]
    /\ invoked' = [i \in 1..Len(reqs) |-> NotInvoked]
    /\ video_paths' = [i \in 1..Len(reqs) |-> <<>>]
    /\ svdOut' = [i \in 1..Len(reqs) |-> Pending]
    /\ ltxOut' = [i \in 1..Len(reqs) |-> Pending]
    /\ apiOut' = [i \in 1..Len(reqs) |-> Pending]
    /\ clientOut' = [i \in 1..Len(reqs) |-> Pending]
    /\ UNCHANGED <<config, completed, batchOut, svd_pipeline, ltx_pipeline,
                   construct, auxVars, progressVars>>

\* generate_with_semaphore(request) starts: async with semaphore.
\* gather schedules the tasks in the order of its arguments and the event
\* loop runs what it scheduled first in, first out.
generate_with_semaphore(i) ==
    /\ call = "batch"
    /\ pc[i] = "created"
    /\ \A j \in 1..(i - 1) : pc[j] # "created"
    /\ IF semaphore > 0
       THEN /\ semaphore' = semaphore - 1
            /\ Enter(i)
       ELSE /\ pc' = [pc EXCEPT ![i] = "waiting"]
            /\ UNCHANGED <<semaphore, invoked>>
    /\ UNCHANGED <<config, call, requests, max_concurrent, video_paths, svdOut, ltxOut, apiOut,
                   clientOut, completed, batchOut, svd_pipeline, ltx_pipeline,
                   construct, auxVars, progressVars>>

\* a task waiting in semaphore.acquire() gets a released permit
semaphore_acquire(i) ==
    /\ pc[i] = "waiting"
    /\ semaphore > 0
    /\ semaphore' = semaphore - 1
    /\ Enter(i)
    /\ UNCHANGED <<config, call, requests, max_concurrent, video_paths, svdOut, ltxOut, apiOut,
                   clientOut, completed, batchOut, svd_pipeline, ltx_pipeline,
                   construct, auxVars, progressVars>>


(* ---- SVDClient.generate_video_async ---- *)

\* if progress_callback: progress_callback({..., "progress": value}), once
\* for each of the values, in their order
Deliver(values) ==
    progress' = IF progress_callback THEN progress \o values ELSE progress

\* 25 + (i * 50 // request.number_of_videos), delivered before video i
ProgressOfVideo(i, number_of_videos) ==
    ProgressGenerating + ((i * ProgressSpan) \div number_of_videos)

genFrame == <<config, call, requests, max_concurrent, batchOut, construct, auxVars,
              progress_callback>>

\* await self.initialize_pipeline() finds or loads the pipeline, and
\* _prepare_generation_params succeeds: the generation loop starts
svd_initialize_pipeline(i) ==
    /\ pc[i] = "svd_init"
    /\ svd_pipeline' = "loaded"
    /\ pc' = [pc EXCEPT ![i] = "svd_gen"]
    /\ video_paths' = [video_paths EXCEPT ![i] = <<>>]
    /\ Deliver(<<ProgressInitializing, ProgressGenerating,
                 ProgressOfVideo(0, requests[i].number_of_videos)>>)
    /\ UNCHANGED <<svdOut, ltxOut, apiOut, clientOut, invoked, completed, semaphore,
                   ltx_pipeline>>
    /\ UNCHANGED genFrame

\* initialize_pipeline raises: either from_pretrained raised and pipeline
\* stays None, or .to(device) / enable_model_cpu_offload raised after
\* self.pipeline had been assigned
svd_initialize_pipeline_fails(i) ==
    /\ pc[i] = "svd_init"
    /\ svd_pipeline = "None"
    /\ svd_pipeline' \in {"None", "loaded"}
    /\ Fallback(i)
    /\ UNCHANGED <<ltx_pipeline, progress>>
    /\ UNCHANGED genFrame

\* the pipeline is there but _prepare_generation_params raises (_load_image
\* on an unreadable image, for instance)
svd_prepare_generation_params_fails(i) ==
    /\ pc[i] = "svd_init"
    /\ svd_pipeline' = "loaded"
    /\ Fallback(i)
    /\ Deliver(<<ProgressInitializing>>)
    /\ UNCHANGED ltx_pipeline
    /\ UNCHANGED genFrame

\* a loop that returns after its first pass
svd_generate_single_video_once(i) ==
    /\ pc[i] = "svd_gen"
    /\ Complete(i, Returned(Append(video_paths[i], Uri("svd", Len(video_paths[i])))),
                ltxOut[i])
    /\ Deliver(<<ProgressCompleted>>)
    /\ UNCHANGED <<svd_pipeline, ltx_pipeline>>
    /\ UNCHANGED genFrame

\* one pass of the loop: _generate_single_video(request, params, i) returns
\* its URI; after the last video the list is returned
svd_generate_single_video(i) ==
    /\ pc[i] = "svd_gen"
    /\ LET paths == Append(video_paths[i], Uri("svd", Len(video_paths[i])))
       IN IF Len(paths) = requests[i].number_of_videos
          THEN /\ Complete(i, Returned(paths), ltxOut[i])
               /\ Deliver(<<ProgressCompleted>>)
          ELSE /\ video_paths' = [video_paths EXCEPT ![i] = paths]
               /\ Deliver(<<ProgressOfVideo(Len(paths), requests[i].number_of_videos)>>)
               /\ UNCHANGED <<pc, svdOut, ltxOut, apiOut, clientOut, invoked,
                              completed, semaphore>>
    /\ UNCHANGED <<svd_pipeline, ltx_pipeline>>
    /\ UNCHANGED genFrame

\* the pipeline call or _save_video raises
svd_generate_single_video_fails(i) ==
    /\ pc[i] = "svd_gen"
    /\ Fallback(i)
    /\ UNCHANGED <<svd_pipeline, ltx_pipeline, progress>>
    /\ UNCHANGED genFrame

(* ---- LTXVideoClient.generate_video_async ---- *)

\* a client that keeps the collected paths in one list for all its calls and
\* clears it at the start of each
ltx_initialize_pipeline_one_list(i) ==
    /\ pc[i] = "ltx_init"
    /\ IF ltx_pipeline = "None"
       THEN ltx_pipeline' \in {"mock", "loaded"}
       ELSE ltx_pipeline' = ltx_pipeline
    /\ pc' = [pc EXCEPT ![i] = "ltx_gen"]
    /\ video_paths' = [j \in Tasks |-> <<>>]
    /\ Deliver(<<ProgressInitializing, ProgressGenerating,
                 ProgressOfVideo(0, requests[i].number_of_videos)>>)
    /\ UNCHANGED <<svdOut, ltxOut, apiOut, clientOut, invoked, completed, semaphore,
                   svd_pipeline>>
    /\ UNCHANGED genFrame

\* initialize_pipeline: the pipeline is there, or ltx_video is not installed
\* and MockLTXPipeline is used, or one of the models loads
ltx_initialize_pipeline(i) ==
    /\ pc[i] = "ltx_init"
    /\ IF ltx_pipeline = "None"
       THEN ltx_pipeline' \in {"mock", "loaded"}
       ELSE ltx_pipeline' = ltx_pipeline
    /\ pc' = [pc EXCEPT ![i] = "ltx_gen"]
    /\ video_paths' = [video_paths EXCEPT ![i] = <<>>]
    /\ Deliver(<<ProgressInitializing, ProgressGenerating,
                 ProgressOfVideo(0, requests[i].number_of_videos)>>)
    /\ UNCHANGED <<svdOut, ltxOut, apiOut, clientOut, invoked, completed, semaphore,
                   svd_pipeline>>
    /\ UNCHANGED genFrame

\* none of the three models loads: "Failed to load any LTX-Video model"
ltx_initialize_pipeline_fails(i) ==
    /\ pc[i] = "ltx_init"
    /\ ltx_pipeline = "None"
    /\ Complete(i, svdOut[i], Raised)
    /\ UNCHANGED <<svd_pipeline, ltx_pipeline, progress>>
    /\ UNCHANGED genFrame

\* the pipeline is there but _prepare_generation_params raises
ltx_prepare_generation_params_fails(i) ==
    /\ pc[i] = "ltx_init"
    /\ IF ltx_pipeline = "None"
       THEN ltx_pipeline' \in {"mock", "loaded"}
       ELSE ltx_pipeline' = ltx_pipeline
    /\ Complete(i, svdOut[i], Raised)
    /\ Deliver(<<ProgressInitializing>>)
    /\ UNCHANGED svd_pipeline
    /\ UNCHANGED genFrame

ltx_generate_single_video(i) ==
    /\ pc[i] = "ltx_gen"
    /\ LET paths == Append(video_paths[i], Uri("ltx", Len(video_paths[i])))
       IN IF Len(paths) = requests[i].number_of_videos
          THEN /\ Complete(i, svdOut[i], Returned(paths))
               /\ Deliver(<<ProgressCompleted>>)
          ELSE /\ video_paths' = [video_paths EXCEPT ![i] = paths]
               /\ Deliver(<<ProgressOfVideo(Len(paths), requests[i].number_of_videos)>>)
               /\ UNCHANGED <<pc, svdOut, ltxOut, apiOut, clientOut, invoked,
                              completed, semaphore>>
    /\ UNCHANGED <<svd_pipeline, ltx_pipeline>>
    /\ UNCHANGED genFrame

\* the pipeline call or _save_video raises: every provider has failed
ltx_generate_single_video_fails(i) ==
    /\ pc[i] = "ltx_gen"
    /\ Complete(i, svdOut[i], Raised)
    /\ UNCHANGED <<svd_pipeline, ltx_pipeline, progress>>
    /\ UNCHANGED genFrame

(* ---- one generation with a progress_callback ---- *)

\* VEOClient.generate_video_async(request, progress_callback) with a callback:
\* it is handed down unchanged to VideoGeneratorAPI.generate_video_async and
\* from there to the provider clients
generate_video_async_with_callback(request) ==
    /\ call = "none"
    /\ call' = "single"
    /\ requests' = <<request>>
    /\ pc' = <<"svd_init">>
    /\ invoked' = <<[NotInvoked EXCEPT !.svd = 1]>>
    /\ video_paths' = << <<>> >>
    /\ svdOut' = <<Pending>>
    /\ ltxOut' = <<Pending>>
    /\ apiOut' = <<Pending>>
    /\ clientOut' = <<Pending>>
    /\ progress_callback' = TRUE
    /\ progress' = <<>>
    /\ UNCHANGED <<config, semaphore, max_concurrent, completed, batchOut, svd_pipeline,
                   ltx_pipeline, construct, auxVars>>

NextProgress ==
    \/ \E request \in RequestSet : generate_video_async_with_callback(request)
    \/ \E i \in Tasks : svd_initialize_pipeline(i)
    \/ \E i \in Tasks : svd_initialize_pipeline_fails(i)
    \/ \E i \in Tasks : svd_prepare_generation_params_fails(i)
    \/ \E i \in Tasks : svd_generate_single_video(i)
    \/ \E i \in Tasks : svd_generate_single_video_fails(i)
    \/ \E i \in Tasks : ltx_initialize_pipeline(i)
    \/ \E i \in Tasks : ltx_initialize_pipeline_fails(i)
    \/ \E i \in Tasks : ltx_prepare_generation_params_fails(i)
    \/ \E i \in Tasks : ltx_generate_single_video(i)
    \/ \E i \in Tasks : ltx_generate_single_video_fails(i)

SpecProgress == Init /\ [][NextProgress]_vars

\* the call of request i left SVDClient.generate_video_async for the fallback
\* without a progress value having been delivered: initialize_pipeline
\* raised (the first value, 10, follows its return at once)
SvdLoadFailed(i) ==
    /\ progress_callback
    /\ pc[i] = "svd_init"
    /\ pc'[i] = "ltx_init"
    /\ progress' = progress

\* the same for LTXVideoClient, whose failure ends the call
LtxLoadFailed(i) ==
    /\ progress_callback
    /\ pc[i] = "ltx_init"
    /\ pc'[i] = "done"
    /\ progress' = progress

\* C28: for each SVD or LTX client the pipeline is loaded at most once over
\* any sequence of generation calls: once pipeline is set it is never
\* reloaded or reset, a failed load leaves it unset, and no generation runs
\* the pipeline while it is unset.
C28_PipelineLoadedOnce ==
    [][/\ svd_pipeline # "None" => svd_pipeline' = svd_pipeline
       /\ ltx_pipeline # "None" => ltx_pipeline' = ltx_pipeline
       /\ \A i \in Tasks :
             /\ SvdLoadFailed(i) => svd_pipeline' = "None"
             /\ LtxLoadFailed(i) => ltx_pipeline' = "None"
             /\ pc'[i] = "svd_gen" => svd_pipeline' # "None"
             /\ pc'[i] = "ltx_gen" => ltx_pipeline' # "None"]_vars

\* C26: over one call of VideoGeneratorAPI.generate_video_async, a fallback
\* from the primary to the secondary provider included, the progress values
\* delivered to progress_callback are non-decreasing and lie in 10..100.
C26_ProgressNonDecreasing ==
    /\ \A k \in 1..Len(progress) : progress[k] \in 10..100
    /\ \A k \in 1..(Len(progress) - 1) : progress[k] <= progress[k + 1]


Min(a, b) == IF a <= b THEN a ELSE b
Max(a, b) == IF a >= b THEN a ELSE b

\* the rounding without the limits
CalculateFramesUnbounded(duration_seconds) ==
    (((duration_seconds * TargetFps) - 1) \div FrameStep) * FrameStep + 1

\* target_frames = duration_seconds * 30
\* frames = ((target_frames - 1) // 8) * 8 + 1
\* frames = max(9, min(frames, 257))
\* (// rounds towards minus infinity, as \div does)
CalculateFrames(duration_seconds) ==
    LET target_frames == duration_seconds * TargetFps
        frames == ((target_frames - 1) \div FrameStep) * FrameStep + 1
    IN Max(MinFrames, Min(frames, MaxFrames))

\* self._calculate_frames(duration_seconds)
calculate_frames(duration_seconds) ==
    /\ calc = NoCalc
    /\ calc' = [called |-> TRUE, duration_seconds |-> duration_seconds,
                frames |-> CalculateFrames(duration_seconds)]
    /\ UNCHANGED framesFrame

\* durations: those a VideoRequest can hold (1..8) and integers around them,
\* zero and negative ones included
DurationInputs == (0 - MaxSeconds)..MaxSeconds

InitFrames ==
    /\ DefaultClient
    /\ GeneratorIdle
    /\ ConfigIdle
    /\ CleanupIdle
    /\ ScriptIdle
    /\ calc = NoCalc

NextFrames == \E duration_seconds \in DurationInputs : calculate_frames(duration_seconds)

SpecFrames == InitFrames /\ [][NextFrames]_vars

GatherResultsAsCompleted == [i \in Tasks |-> clientOut[completed[i]]]

\* results = await asyncio.gather(*tasks, return_exceptions=True): the result
\* or the exception object of each task, in the order of the tasks
GatherResults == [i \in Tasks |-> clientOut[i]]

\* results handed back as gather gave them, exception objects included
SuccessfulResultsUnhandled(results) == results

\* the loop over results: an exception becomes [], a list is kept
SuccessfulResults(results) ==
    [i \in 1..Len(results) |->
        IF results[i].kind = "exception" THEN Returned(<<>>) ELSE results[i]]

\* a gather without return_exceptions hands the first exception to the batch
\* while the other tasks are still running
batch_return_on_first_exception ==
    /\ call = "batch"
    /\ batchOut.kind = "pending"
    /\ \/ \A i \in Tasks : pc[i] = "done"
       \/ \E i \in Tasks : clientOut[i].kind = "exception"
    /\ batchOut' = [kind |-> "list", value |-> SuccessfulResults(GatherResults)]
    /\ UNCHANGED <<config, call, requests, semaphore, max_concurrent, pc, video_paths,
                   svdOut, ltxOut, apiOut, clientOut, invoked, completed, svd_pipeline,
                   ltx_pipeline, construct, auxVars, progressVars>>

\* gather returns once every task is over; the batch returns successful_results
batch_return ==
    /\ call = "batch"
    /\ batchOut.kind = "pending"
    /\ \A i \in Tasks : pc[i] = "done"
    /\ batchOut' = [kind |-> "list", value |-> SuccessfulResults(GatherResults)]
    /\ UNCHANGED <<config, call, requests, semaphore, max_concurrent, pc, video_paths, svdOut,
                   ltxOut, apiOut, clientOut, invoked, completed, svd_pipeline,
                   ltx_pipeline, construct, auxVars, progressVars>>

MaxConcurrentArgs == {NoneArg} \cup {IntArg(n) : n \in 0..MaxConcurrent}

Next ==
    \/ \E request \in RequestSet : generate_video_sync(request)
    \/ \E reqs \in SeqsUpTo(RequestSet, MaxRequests), mc \in MaxConcurrentArgs :
          batch_generate_videos(reqs, mc)
    \/ \E i \in Tasks : generate_with_semaphore(i)
    \/ \E i \in Tasks : semaphore_acquire(i)
    \/ \E i \in Tasks : svd_initialize_pipeline(i)
    \/ \E i \in Tasks : svd_initialize_pipeline_fails(i)
    \/ \E i \in Tasks : svd_prepare_generation_params_fails(i)
    \/ \E i \in Tasks : svd_generate_single_video(i)
    \/ \E i \in Tasks : svd_generate_single_video_fails(i)
    \/ \E i \in Tasks : ltx_initialize_pipeline(i)
    \/ \E i \in Tasks : ltx_initialize_pipeline_fails(i)
    \/ \E i \in Tasks : ltx_prepare_generation_params_fails(i)
    \/ \E i \in Tasks : ltx_generate_single_video(i)
    \/ \E i \in Tasks : ltx_generate_single_video_fails(i)
    \/ batch_return

Spec == Init /\ [][Next]_vars

\* The steps of a call that is running.  The event loop runs every task
\* that is ready, a task waiting in acquire() becomes ready when a permit is
\* released, and every provider coroutine is taken to return or raise: a
\* running call that can take a step eventually takes one.
RunningStep ==
    \/ \E i \in Tasks : generate_with_semaphore(i)
    \/ \E i \in Tasks : semaphore_acquire(i)
    \/ \E i \in Tasks : svd_initialize_pipeline(i)
    \/ \E i \in Tasks : svd_initialize_pipeline_fails(i)
    \/ \E i \in Tasks : svd_prepare_generation_params_fails(i)
    \/ \E i \in Tasks : svd_generate_single_video(i)
    \/ \E i \in Tasks : svd_generate_single_video_fails(i)
    \/ \E i \in Tasks : ltx_initialize_pipeline(i)
    \/ \E i \in Tasks : ltx_initialize_pipeline_fails(i)
    \/ \E i \in Tasks : ltx_prepare_generation_params_fails(i)
    \/ \E i \in Tasks : ltx_generate_single_video(i)
    \/ \E i \in Tasks : ltx_generate_single_video_fails(i)
    \/ batch_return

SpecLive == Init /\ [][Next]_vars /\ WF_vars(RunningStep)

(* ---- VideoRequest construction on its own ---- *)

NextRequest ==
    \/ construct = NoConstruct /\ \E args \in ConstructArgs : ConstructAccepted(args)
    \/ construct = NoConstruct /\ \E args \in ConstructArgs : ConstructRejected(args)

SpecRequest == Init /\ [][NextRequest]_vars


(* ---- properties ---- *)

\* requests whose call of VEOClient.generate_video_async is in progress
InProgress == {i \in Tasks : pc[i] \in {"svd_init", "svd_gen", "ltx_init", "ltx_gen"}}

\* the list a provider chain produced for request i, [] when it produced none
ProducedUris(i) ==
    IF svdOut[i].kind = "list" THEN svdOut[i].uris
    ELSE IF ltxOut[i].kind = "list" THEN ltxOut[i].uris
    ELSE <<>>

BatchReturned == call = "batch" /\ batchOut.kind = "list"

\* C1: batch_generate_videos on N requests returns a list of exactly N
\* entries, and entry i holds what the generation of request i produced,
\* whatever the order in which the generations completed.
C1_BatchKeepsInputOrder ==
    BatchReturned =>
        /\ Len(batchOut.value) = Len(requests)
        /\ \A i \in Tasks : batchOut.value[i].uris = ProducedUris(i)

\* a batch returned whose second request completed before its first, the two
\* having produced different lists
C1_Witness ==
    /\ BatchReturned
    /\ Len(requests) >= 2
    /\ completed[1] = 2
    /\ ProducedUris(1) # ProducedUris(2)

\* C2: in a batch a request whose generation raised has [] in its slot, the
\* batch itself never raises, and every slot is a list, never an exception.
C2_FailedRequestYieldsEmptyList ==
    /\ batchOut.kind # "exception"
    /\ BatchReturned =>
          \A i \in Tasks :
             /\ batchOut.value[i].kind = "list"
             /\ clientOut[i].kind = "exception" => batchOut.value[i].uris = <<>>

\* a batch returned in which one generation raised and another returned videos
C2_Witness ==
    /\ BatchReturned
    /\ \E i, j \in Tasks :
          /\ clientOut[i].kind = "exception"
          /\ clientOut[j].kind = "list"
          /\ Len(batchOut.value[j].uris) > 0

\* C3: during a batch with limit K (the max_concurrent argument when it is
\* given and not zero, config.max_concurrent_operations otherwise) at most K
\* calls of generate_video_async are in progress.
C3_AtMostKInProgress ==
    call = "batch" =>
        Cardinality(InProgress) <=
            (IF max_concurrent.given /\ max_concurrent.value # 0
             THEN max_concurrent.value
             ELSE config.max_concurrent_operations)

\* K generations are in progress while a further request waits for a permit
C3_Witness ==
    /\ call = "batch"
    /\ Cardinality(InProgress) = ConcurrencyLimit(max_concurrent)
    /\ \E i \in Tasks : pc[i] = "waiting"

\* C4: a failed request cancels or skips no sibling: when the batch returns,
\* every request was started and ran to its own completion, and the URIs of
\* each request that succeeded are in its slot.
C4_FailureLeavesSiblingsRunning ==
    BatchReturned =>
        \A i \in Tasks :
           /\ invoked[i].svd >= 1
           /\ pc[i] = "done"
           /\ clientOut[i].kind \in {"list", "exception"}
           /\ clientOut[i].kind = "list" => batchOut.value[i].uris = clientOut[i].uris

\* a batch returned in which the first generation to complete failed and a
\* sibling completed after it with videos
C4_Witness ==
    /\ BatchReturned
    /\ Len(requests) >= 2
    /\ clientOut[completed[1]].kind = "exception"
    /\ clientOut[completed[2]].kind = "list"
    /\ Len(batchOut.value[completed[2]].uris) > 0

\* C5: VideoGeneratorAPI.generate_video_async calls the fallback provider
\* only after the primary provider has raised; when the primary provider
\* succeeds its list is returned unchanged and the fallback is never called.
C5_FallbackOnlyAfterPrimaryRaised ==
    \A i \in Tasks :
       /\ invoked[i].ltx > 0 => svdOut[i].kind = "exception"
       /\ svdOut[i].kind = "list" =>
             /\ apiOut[i] = svdOut[i]
             /\ invoked[i].ltx = 0
             /\ ltxOut[i].kind = "pending"

\* the primary provider returned several videos for some request
C5_Witness ==
    \E i \in Tasks :
       /\ svdOut[i].kind = "list"
       /\ Len(apiOut[i].uris) > 1
       /\ invoked[i].ltx = 0

\* C6: when the primary and the fallback provider have both raised,
\* VideoGeneratorAPI.generate_video_async raises: it returns no list.
C6_AllProvidersFailedRaises ==
    \A i \in Tasks :
       (svdOut[i].kind = "exception" /\ ltxOut[i].kind = "exception")
          => apiOut[i].kind = "exception"

\* both providers raised for some request
C6_Witness ==
    \E i \in Tasks :
       /\ svdOut[i].kind = "exception"
       /\ ltxOut[i].kind = "exception"
       /\ pc[i] = "done"

C8_SingleGenerationReraises ==
    \A i \in Tasks :
       /\ apiOut[i].kind = "exception" => clientOut[i].kind = "exception"
       /\ apiOut[i].kind = "list" =>
             /\ clientOut[i].kind = "list"
             /\ clientOut[i].uris = ProducedUris(i)
       /\ clientOut[i].kind = "list" => apiOut[i].kind = "list"

\* a single generation failed and its caller got the exception
C8_Witness ==
    /\ call = "single"
    /\ apiOut[1].kind = "exception"
    /\ clientOut[1].kind = "exception"

VeoVideoUris(number_of_videos) == [j \in 1..number_of_videos |-> Uri("veo", j - 1)]

\* a list of n URIs of one provider, URI k being the one of index k - 1
OnePerIndex(uris, n) ==
    /\ Len(uris) = n
    /\ \A k \in 1..Len(uris) : uris[k].index = k - 1 /\ uris[k].provider = uris[1].provider

BatchFinished ==
    /\ batchOut.kind = "list"
    /\ \A i \in Tasks : invoked[i].svd >= 1 /\ pc[i] = "done"
    /\ semaphore = (IF max_concurrent.given /\ max_concurrent.value # 0
                    THEN max_concurrent.value
                    ELSE config.max_concurrent_operations)

\* C29: batch_generate_videos always finishes: provided every generation
\* call eventually returns or raises, every request eventually acquires the
\* semaphore, the batch returns, and all permits of the semaphore have been
\* released by then, also when requests fail.
C29_BatchFinishes == (call = "batch") ~> BatchFinished

\* a batch of two requests with one permit has returned, the first request
\* having failed and the second, which had to wait for the permit, having
\* produced its videos; the permit is back
C29_Witness ==
    /\ BatchReturned
    /\ Len(requests) = 2
    /\ ConcurrencyLimit(max_concurrent) = 1
    /\ semaphore = 1
    /\ clientOut[1].kind = "exception"
    /\ clientOut[2].kind = "list"

\* what the coroutine handling request j holds: its position, the local
\* video_paths of its provider call, its outcomes and its provider calls
RequestState(j) ==
    <<pc[j], video_paths[j], svdOut[j], ltxOut[j], apiOut[j], clientOut[j], invoked[j]>>

\* a step of request i changes the state of no other request
StepsTouchOneRequest ==
    \A i \in Tasks :
       RequestState(i)' # RequestState(i) =>
          \A j \in Tasks \ {i} : RequestState(j)' = RequestState(j)

\* C17 as stated: the generations of a batch share no mutable state, so a
\* request never reads state another request wrote: whenever a request gets
\* past initialize_pipeline it found no pipeline left there by another one,
\* and no step of a request changes the state of another.
C17_NoSharedState ==
    [][/\ \A i \in Tasks :
             /\ (pc[i] = "svd_init" /\ pc'[i] # "svd_init") => svd_pipeline = "None"
             /\ (pc[i] = "ltx_init" /\ pc'[i] # "ltx_init") => ltx_pipeline = "None"
       /\ StepsTouchOneRequest]_vars

\* C17 amended: the generations of a batch share the pipelines of the two
\* provider clients: a request that finds a pipeline set uses it as it is
\* and leaves it as it is.  Apart from that no step of a request changes the
\* state of another request.
C17_OnlyPipelinesShared ==
    [][/\ \A i \in Tasks :
             /\ (pc[i] = "svd_init" /\ pc'[i] # "svd_init" /\ svd_pipeline # "None")
                   => svd_pipeline' = svd_pipeline
             /\ (pc[i] = "ltx_init" /\ pc'[i] # "ltx_init" /\ ltx_pipeline # "None")
                   => ltx_pipeline' = ltx_pipeline
       /\ StepsTouchOneRequest]_vars

\* two requests of a batch are generating with the one SVD pipeline, each
\* having collected a video
C17_Witness ==
    /\ call = "batch"
    /\ Len(requests) >= 2
    /\ pc[1] = "svd_gen"
    /\ pc[2] = "svd_gen"
    /\ svd_pipeline = "loaded"
    /\ video_paths[1] # <<>>
    /\ video_paths[2] # <<>>


(* ---- VideoGenerator (veo/core/generator.py) ---- *)

FilePrefix == <<"f", "i", "l", "e", ":", "/", "/">>
HttpsPrefix == <<"h", "t", "t", "p", "s", ":", "/", "/">>

\* a URI string, given by its leading characters and by what follows them
UriString(head, rest) == [head |-> head, rest |-> rest]

\* self.config.output_dir / name, the name given by its parts
OutputPath(name) == [dir |-> "output_dir", name |-> name]

\* output_dir / f"svd_video_{timestamp}_{video_index}.mp4" (ltx_video_... for
\* LTX-Video), timestamp being int(time.time())
ProviderVideoPath(provider, timestamp, video_index) ==
    OutputPath(<<provider, "video", ToString(timestamp), ToString(video_index)>>)

\* f"file://{video_path.absolute()}"
FileUri(video_path) == UriString(FilePrefix, video_path)

\* the nondecreasing sequences of n readings of a clock that shows t
RECURSIVE Readings(_, _)
Readings(t, n) ==
    IF n = 0 THEN {<<>>}
    ELSE UNION {{<<u>> \o r : r \in Readings(u, n - 1)} : u \in t..MaxTime}

\* a provider call for n videos that wrote k of them at the clock readings
\* ts: the list of the k = n URIs, or the exception that ended it early
ProviderRun(provider, n, k, ts) ==
    IF k = n
    THEN Returned([j \in 1..n |-> FileUri(ProviderVideoPath(provider, ts[j], j - 1))])
    ELSE Raised

\* the files a provider call wrote
ProviderWrites(provider, k, ts) ==
    [j \in 1..k |-> ProviderVideoPath(provider, ts[j], j - 1)]

RECURSIVE WriteAll(_, _)
WriteAll(bag, paths) ==
    IF paths = <<>> THEN bag
    ELSE WriteAll(bag (+) SetToBag({Head(paths)}), Tail(paths))

\* a str is truthy when it is neither None nor empty
Truthy(v) == v.given /\ Len(v.value) > 0

\* the URIs to download for request i: its list, none when it has none
UrisOf(out) == IF out.kind = "list" THEN out.uris ELSE <<>>

\* the call is over once every URI the client handed back has its path;
\* a batch returns the list of lists, a single call the list of its request
GeneratorOutcome(op, uris, paths) ==
    IF \A i \in 1..Len(uris) :
          uris[i].kind # "pending" /\ Len(paths[i]) = Len(UrisOf(uris[i]))
    THEN GenReturned(IF op = "batch" THEN paths ELSE paths[1])
    ELSE GenPending

\* VideoRequest(...) as generate_from_prompt and generate_from_image call it
GeneratorRequestArgs(args) ==
    [prompt_len |-> args.prompt_len, image_path |-> args.image_path,
     aspect_ratio |-> args.aspect_ratio, duration |-> args.duration,
     number_of_videos |-> args.number_of_videos, output_gcs_uri |-> NoneStr]

\* the URI the bucket and the clock give
BucketUri(timestamp) ==
    Str(GsPrefix \o gcs_bucket.value \o <<"/videos/", ToString(timestamp), "/">>)

\* an upload URI that is set whenever a bucket is configured
OutputGcsUriOverwriting(uri) ==
    IF Truthy(gcs_bucket) THEN BucketUri(now) ELSE uri

\* if self.config.gcs_bucket and not request.output_gcs_uri:
\*     request.output_gcs_uri = f"gs://{bucket}/videos/{timestamp}/"
OutputGcsUri(uri) ==
    IF Truthy(gcs_bucket) /\ ~Truthy(uri)
    THEN BucketUri(now)
    ELSE uri

\* generate_from_prompt / generate_from_image up to the await of
\* client.generate_video_async: the request is built first, and a
\* ValidationError leaves the call at once
GenerateAndDownload(op, args) ==
    /\ gOp = "none"
    /\ construct = NoConstruct
    /\ gOp' = op
    /\ gArgs' = args
    /\ IF VideoRequestOk(GeneratorRequestArgs(args))
       THEN /\ gRequests' = <<[number_of_videos |-> args.number_of_videos,
                               output_filename |-> args.output_filename,
                               output_gcs_uri |-> OutputGcsUri(NoneStr)]>>
            /\ gUris' = <<Pending>>
            /\ gPaths' = << <<>> >>
            /\ gOut' = GenPending
       ELSE /\ gOut' = GenRaised("ValidationError")
            /\ UNCHANGED <<gRequests, gUris, gPaths>>
    /\ UNCHANGED <<gInvoked, gcs_bucket, gcs_client, now, written, downloads>>
    /\ UNCHANGED generatorFrame

generate_from_prompt(args) ==
    /\ args.image_path = "None"
    /\ GenerateAndDownload("prompt", args)

generate_from_image(args) ==
    /\ args.image_path # "None"
    /\ GenerateAndDownload("image", args)

\* batch_generate_from_prompts up to the await of client.batch_generate_videos:
\* one VideoRequest per prompt, all with the same settings
batch_generate_from_prompts(prompts, number_of_videos) ==
    /\ gOp = "none"
    /\ construct = NoConstruct
    /\ gOp' = "batch"
    /\ gArgs' = [prompts |-> prompts, number_of_videos |-> number_of_videos]
    /\ IF \A i \in 1..Len(prompts) :
             VideoRequestOk([prompt_len |-> prompts[i], image_path |-> "None",
                             aspect_ratio |-> "16:9", duration |-> DurationMax,
                             number_of_videos |-> number_of_videos,
                             output_gcs_uri |-> NoneStr])
       THEN /\ gRequests' = [i \in 1..Len(prompts) |->
                               [number_of_videos |-> number_of_videos,
                                output_filename |-> NoneStr,
                                output_gcs_uri |-> NoneStr]]
            /\ gUris' = [i \in 1..Len(prompts) |-> Pending]
            /\ gPaths' = [i \in 1..Len(prompts) |-> <<>>]
            /\ gOut' = GeneratorOutcome("batch", gUris', gPaths')
       ELSE /\ gOut' = GenRaised("ValidationError")
            /\ UNCHANGED <<gRequests, gUris, gPaths>>
    /\ UNCHANGED <<gInvoked, gcs_bucket, gcs_client, now, written, downloads>>
    /\ UNCHANGED generatorFrame

\* _generate_and_download(request) called with a request its caller built,
\* up to the await of client.generate_video_async: the request object is the
\* caller's, and the assignment to output_gcs_uri changes it in place
generate_and_download(request) ==
    /\ gOp = "none"
    /\ construct = NoConstruct
    /\ gOp' = "request"
    /\ gArgs' = request
    /\ gRequests' = <<[request EXCEPT !.output_gcs_uri = OutputGcsUri(@)]>>
    /\ gUris' = <<Pending>>
    /\ gPaths' = << <<>> >>
    /\ gOut' = GenPending
    /\ UNCHANGED <<gInvoked, gcs_bucket, gcs_client, now, written, downloads>>
    /\ UNCHANGED generatorFrame

\* the first request the client has not answered yet, 0 when there is none
NextToGenerate ==
    IF \E i \in 1..Len(gUris) : gUris[i].kind = "pending"
    THEN CHOOSE i \in 1..Len(gUris) :
            /\ gUris[i].kind = "pending"
            /\ \A j \in 1..(i - 1) : gUris[j].kind # "pending"
    ELSE 0

\* await self.client.generate_video_async(request) for request i, run to its
\* end: SVD writes k of the n videos, and when it failed LTX-Video writes m
\* of them, at the clock readings ts.  A single call lets the exception of
\* the client through; in a batch the client hands back [] for the request.
client_generate_video_async(i, k, m, ts) ==
    /\ gOp \in {"prompt", "image", "batch", "request"}
    /\ gOut.kind = "pending"
    /\ i = NextToGenerate
    /\ LET n == gRequests[i].number_of_videos
           svd == ProviderRun("svd", n, k, SubSeq(ts, 1, k))
           ltx == IF k = n THEN Pending
                  ELSE ProviderRun("ltx", n, m, SubSeq(ts, k + 1, k + m))
           out == ClientOutcome(ApiOutcome(svd, ltx))
       IN /\ k \in 0..n
          /\ m \in 0..n
          /\ k = n => m = 0
          /\ Len(ts) = k + m
          /\ gUris' = [gUris EXCEPT ![i] = out]
          /\ gInvoked' = gInvoked + (IF k = n THEN 1 ELSE 2)
          /\ written' = WriteAll(WriteAll(written,
                                          ProviderWrites("svd", k, SubSeq(ts, 1, k))),
                                 ProviderWrites("ltx", m, SubSeq(ts, k + 1, k + m)))
          /\ now' = IF ts = <<>> THEN now ELSE ts[Len(ts)]
          /\ gOut' = IF gOp # "batch" /\ out.kind = "exception"
                     THEN GenRaised("Exception")
                     ELSE GeneratorOutcome(gOp, gUris', gPaths)
    /\ UNCHANGED <<gOp, gArgs, gRequests, gPaths, gcs_bucket, gcs_client, downloads>>
    /\ UNCHANGED generatorFrame

\* the branch of the if / elif chain of _download_video that handles a URI
DownloadMethod(video_uri) ==
    IF StartsWith(video_uri.head, FilePrefix) THEN "download_video"
    ELSE IF StartsWith(video_uri.head, GsPrefix)
         THEN IF gcs_client THEN "_download_from_gcs" ELSE "download_video"
         ELSE "_download_from_url"

\* VideoGeneratorAPI.download_video copies the file of a file:// URI and
\* fetches any other URI with httpx, which knows http and https only
CanSucceed(video_uri, method) ==
    ~(method = "download_video" /\ StartsWith(video_uri.head, GsPrefix))

\* a download_video without the handler around its body
ApiDownloadVideoRaising(video_uri, source_exists, error) ==
    IF error \/ ~(StartsWith(video_uri.head, FilePrefix)
                    \/ StartsWith(video_uri.head, <<"h", "t", "t", "p">>))
    THEN [result |-> "none", wrote |-> FALSE, raised |-> TRUE]
    ELSE IF StartsWith(video_uri.head, FilePrefix) /\ ~source_exists
         THEN [result |-> "False", wrote |-> FALSE, raised |-> FALSE]
         ELSE [result |-> "True", wrote |-> TRUE, raised |-> FALSE]

\* VideoGeneratorAPI.download_video(video_uri, local_path): a file:// URI is
\* copied when its source exists, any other URI is fetched with httpx (which
\* raises on a scheme that is not http or https); error says that a call in
\* the body raises.  `except Exception` turns every exception into False.
ApiDownloadVideo(video_uri, source_exists, error) ==
    IF StartsWith(video_uri.head, FilePrefix)
    THEN IF source_exists /\ ~error
         THEN [result |-> "True", wrote |-> TRUE, raised |-> FALSE]
         ELSE [result |-> "False", wrote |-> FALSE, raised |-> FALSE]
    ELSE IF StartsWith(video_uri.head, <<"h", "t", "t", "p">>) /\ ~error
         THEN [result |-> "True", wrote |-> TRUE, raised |-> FALSE]
         ELSE [result |-> "False", wrote |-> FALSE, raised |-> FALSE]

\* _download_video(video_uri, request, index) for request i of the call.
\* The name: with output_filename set, len(video_uris) is evaluated, a name
\* that is not defined in this function, and NameError is raised; otherwise
\* video_{timestamp}_{index}.mp4.  Then the download: download_video returns
\* True or False and is not looked at, the other two methods return None or
\* raise.  The path is returned whenever nothing was raised.
DownloadVideo(i, video_uri, request, index, succeeds) ==
    IF Truthy(request.output_filename)
    THEN [request |-> i, uri |-> video_uri, index |-> index, method |-> "none",
          path |-> OutputPath(<<>>), wrote |-> FALSE, outcome |-> "NameError"]
    ELSE LET method == DownloadMethod(video_uri)
             api == ApiDownloadVideo(video_uri, succeeds, ~succeeds)
         IN [request |-> i, uri |-> video_uri, index |-> index, method |-> method,
             path |-> OutputPath(<<"video", ToString(now), ToString(index)>>),
             wrote |-> IF method = "download_video" THEN api.wrote ELSE succeeds,
             outcome |-> IF method = "download_video"
                         THEN IF api.raised THEN "raised" ELSE "returned"
                         ELSE IF succeeds THEN "returned" ELSE "raised"]

\* the first request that still has a URI to download, 0 when there is none
NextToDownload ==
    IF \E i \in 1..Len(gUris) : Len(gPaths[i]) < Len(UrisOf(gUris[i]))
    THEN CHOOSE i \in 1..Len(gUris) :
            /\ Len(gPaths[i]) < Len(UrisOf(gUris[i]))
            /\ \A j \in 1..(i - 1) : Len(gPaths[j]) = Len(UrisOf(gUris[j]))
    ELSE 0

\* one pass of the download loop: local_path = await self._download_video(...)
\* and local_paths.append(local_path); after the last pass the call returns.
\* An exception of _download_video leaves the call, no handler being around
\* the loop.
download_next(succeeds) ==
    /\ gOp \in {"prompt", "image", "batch", "request"}
    /\ gOut.kind = "pending"
    /\ NextToGenerate = 0
    /\ NextToDownload # 0
    /\ LET i == NextToDownload
           index == Len(gPaths[i])
           uri == UrisOf(gUris[i])[index + 1]
           d == DownloadVideo(i, uri, gRequests[i], index, succeeds)
       IN /\ succeeds => CanSucceed(uri, d.method) /\ d.method # "none"
          /\ downloads' = Append(downloads, d)
          /\ written' = IF d.wrote THEN written (+) SetToBag({d.path}) ELSE written
          /\ IF d.outcome = "returned"
             THEN /\ gPaths' = [gPaths EXCEPT ![i] = Append(@, d.path)]
                  /\ gOut' = GeneratorOutcome(gOp, gUris, gPaths')
             ELSE /\ gOut' = GenRaised(d.outcome)
                  /\ UNCHANGED gPaths
    /\ UNCHANGED <<gOp, gArgs, gRequests, gUris, gInvoked, gcs_bucket, gcs_client, now>>
    /\ UNCHANGED generatorFrame

\* _download_video called on its own, with a URI of any scheme
download_video_direct(video_uri, request, index, succeeds) ==
    /\ gOp = "none"
    /\ construct = NoConstruct
    /\ gOp' = "download"
    /\ gArgs' = [video_uri |-> video_uri, request |-> request, index |-> index]
    /\ LET d == DownloadVideo(1, video_uri, request, index, succeeds)
       IN /\ succeeds => CanSucceed(video_uri, d.method) /\ d.method # "none"
          /\ downloads' = Append(downloads, d)
          /\ written' = IF d.wrote THEN written (+) SetToBag({d.path}) ELSE written
          /\ gOut' = IF d.outcome = "returned" THEN GenReturned(<<d.path>>)
                     ELSE GenRaised(d.outcome)
    /\ UNCHANGED <<gRequests, gUris, gPaths, gInvoked, gcs_bucket, gcs_client, now>>
    /\ UNCHANGED generatorFrame

\* a second passes while the call is running
Tick ==
    /\ gOp # "none"
    /\ gOut.kind = "pending"
    /\ now < MaxTime
    /\ now' = now + 1
    /\ UNCHANGED <<gOp, gArgs, gRequests, gUris, gPaths, gOut, gInvoked, gcs_bucket,
                   gcs_client, written, downloads>>
    /\ UNCHANGED generatorFrame

GeneratorArgs ==
    [prompt_len : {PromptMinLength - 1, PromptMinLength}, image_path : ImagePaths,
     aspect_ratio : {"16:9", "4:3"}, duration : {DurationMax},
     number_of_videos : 1..MaxVideos,
     output_filename : {NoneStr, Str(<<>>), Str(<<"clip">>)}]

DownloadRequests ==
    [number_of_videos : {1}, output_filename : {NoneStr, Str(<<>>), Str(<<"clip">>)},
     output_gcs_uri : {NoneStr}]

UriInputs ==
    {FileUri(ProviderVideoPath("svd", 0, 0)),
     UriString(GsPrefix, "b/v.mp4"),
     UriString(HttpsPrefix, "h/v.mp4"),
     UriString(<<"f", "i", "l", "e", ":", "/">>, "v.mp4")}

\* VideoGenerator(config): gcs_client is set only when a bucket is configured
\* and storage.Client() did not raise
InitGenerator ==
    /\ DefaultClient
    /\ gOp = "none"
    /\ gArgs = <<>>
    /\ gRequests = <<>>
    /\ gUris = <<>>
    /\ gPaths = <<>>
    /\ gOut = GenPending
    /\ gInvoked = 0
    /\ gcs_bucket \in {NoneStr, Str(<<"b">>)}
    /\ gcs_client \in {FALSE, Truthy(gcs_bucket)}
    /\ now = 0
    /\ written = EmptyBag
    /\ downloads = <<>>
    /\ ConfigIdle
    /\ CleanupIdle
    /\ ScriptIdle
    /\ FramesIdle

NextGenerator ==
    \/ gOp = "none" /\ construct = NoConstruct
          /\ \E args \in ConstructArgs : ConstructAccepted(args)
    \/ gOp = "none" /\ construct = NoConstruct
          /\ \E args \in ConstructArgs : ConstructRejected(args)
    \/ \E args \in GeneratorArgs : generate_from_prompt(args)
    \/ \E args \in GeneratorArgs : generate_from_image(args)
    \/ \E prompts \in SeqsUpTo({PromptMinLength - 1, PromptMinLength}, MaxRequests),
          n \in 1..MaxVideos : batch_generate_from_prompts(prompts, n)
    \/ \E i \in 1..Len(gUris), k \in 0..MaxVideos, m \in 0..MaxVideos :
          \E ts \in Readings(now, k + m) : client_generate_video_async(i, k, m, ts)
    \/ \E succeeds \in BOOLEAN : download_next(succeeds)
    \/ \E video_uri \in UriInputs, request \in DownloadRequests,
          index \in 0..(MaxVideos - 1), succeeds \in BOOLEAN :
          download_video_direct(video_uri, request, index, succeeds)
    \/ Tick

SpecGenerator == InitGenerator /\ [][NextGenerator]_vars

(* ---- VideoGeneratorAPI.download_video on its own ---- *)

\* await api_client.download_video(video_uri, local_path), called up to
\* MaxVideos times; each call is recorded with what it was given and what
\* it did
api_download_video(video_uri, local_path, source_exists, error) ==
    /\ gOp \in {"none", "api_download"}
    /\ construct = NoConstruct
    /\ Len(downloads) < MaxVideos
    /\ gOp' = "api_download"
    /\ LET d == ApiDownloadVideo(video_uri, source_exists, error)
       IN /\ downloads' = Append(downloads,
                                 [uri |-> video_uri, path |-> local_path,
                                  source_exists |-> source_exists, error |-> error,
                                  result |-> d.result, wrote |-> d.wrote,
                                  raised |-> d.raised])
          /\ written' = IF d.wrote THEN written (+) SetToBag({local_path}) ELSE written
    /\ UNCHANGED <<gArgs, gRequests, gUris, gPaths, gOut, gInvoked, gcs_bucket, gcs_client,
                   now>>
    /\ UNCHANGED generatorFrame

LocalPaths == {OutputPath(<<"video", "0", "0">>), OutputPath(<<"clip">>)}

NextDownloadVideo ==
    \E video_uri \in UriInputs, local_path \in LocalPaths, source_exists \in BOOLEAN,
       error \in BOOLEAN : api_download_video(video_uri, local_path, source_exists, error)

SpecDownloadVideo == InitGenerator /\ [][NextDownloadVideo]_vars

\* C23: VideoGeneratorAPI.download_video never raises: it returns True
\* exactly when the video was copied or downloaded to local_path, and returns
\* False when the file:// source does not exist or when any error occurs.
C23_DownloadVideoNeverRaises ==
    gOp = "api_download" =>
        \A k \in 1..Len(downloads) :
           LET d == downloads[k]
           IN /\ ~d.raised
              /\ d.result \in {"True", "False"}
              /\ d.result = "True" <=> d.wrote
              /\ d.wrote => BagIn(d.path, written)
              /\ (StartsWith(d.uri.head, <<"f", "i", "l", "e", ":", "/", "/">>)
                     /\ ~d.source_exists) => d.result = "False"
              /\ d.error => d.result = "False"

\* a copy whose source exists returned True, and a fetch over https in which
\* a call raised returned False
C23_Witness ==
    /\ gOp = "api_download"
    /\ Len(downloads) = 2
    /\ StartsWith(downloads[1].uri.head, <<"f", "i", "l", "e", ":", "/", "/">>)
    /\ downloads[1].source_exists
    /\ downloads[1].result = "True"
    /\ BagIn(downloads[1].path, written)
    /\ StartsWith(downloads[2].uri.head, <<"h", "t", "t", "p", "s">>)
    /\ downloads[2].error
    /\ downloads[2].result = "False"
    /\ ~downloads[2].raised


(* ---- _generate_and_download on a request of the caller ---- *)

\* valid requests: VideoRequest accepts None, the empty string and any
\* gs:// string as output_gcs_uri
CallerRequests ==
    [prompt_len : {PromptMinLength}, image_path : {"None", "exists"},
     aspect_ratio : {"16:9", "9:16"}, duration : {DurationMin, DurationMax},
     number_of_videos : 1..MaxVideos, output_filename : {NoneStr},
     output_gcs_uri : {NoneStr, Str(<<>>), Str(GsPrefix \o <<"mine/out/">>)}]

\* VideoGenerator(config) with gcs_bucket None, empty or a bucket name
InitGenerateAndDownload ==
    /\ DefaultClient
    /\ gOp = "none"
    /\ gArgs = <<>>
    /\ gRequests = <<>>
    /\ gUris = <<>>
    /\ gPaths = <<>>
    /\ gOut = GenPending
    /\ gInvoked = 0
    /\ gcs_bucket \in {NoneStr, Str(<<>>), Str(<<"b">>)}
    /\ gcs_client \in {FALSE, Truthy(gcs_bucket)}
    /\ now \in 0..MaxTime
    /\ written = EmptyBag
    /\ downloads = <<>>
    /\ ConfigIdle
    /\ CleanupIdle
    /\ ScriptIdle
    /\ FramesIdle

NextGenerateAndDownload ==
    \/ \E request \in CallerRequests : generate_and_download(request)
    \/ \E i \in 1..Len(gUris), k \in 0..MaxVideos, m \in 0..MaxVideos :
          \E ts \in Readings(now, k + m) : client_generate_video_async(i, k, m, ts)
    \/ \E succeeds \in BOOLEAN : download_next(succeeds)
    \/ Tick

SpecGenerateAndDownload == InitGenerateAndDownload /\ [][NextGenerateAndDownload]_vars

\* every field of the request but output_gcs_uri is as the caller passed it
OtherFieldsUnchanged ==
    /\ DOMAIN gRequests[1] = DOMAIN gArgs
    /\ \A field \in DOMAIN gArgs \ {"output_gcs_uri"} : gRequests[1][field] = gArgs[field]

\* the request's output_gcs_uri is gs://<bucket>/videos/<timestamp>/
SetFromBucket ==
    \E timestamp \in 0..MaxTime :
       gRequests[1].output_gcs_uri =
          Str(<<"g", "s", ":", "/", "/">> \o gcs_bucket.value
                 \o <<"/videos/", ToString(timestamp), "/">>)

\* C22 as stated: _generate_and_download sets request.output_gcs_uri to
\* gs://<bucket>/videos/<timestamp>/ only when config.gcs_bucket is set and
\* the request has none; an output_gcs_uri supplied by the caller, and every
\* other field of the request, is left unchanged.
C22_CallerUriKept ==
    gOp = "request" =>
        /\ gRequests[1].output_gcs_uri # gArgs.output_gcs_uri =>
              /\ gcs_bucket.given
              /\ ~gArgs.output_gcs_uri.given
              /\ SetFromBucket
        /\ gArgs.output_gcs_uri.given => gRequests[1].output_gcs_uri = gArgs.output_gcs_uri
        /\ OtherFieldsUnchanged

\* C22 amended: the URI is set exactly when config.gcs_bucket is a non-empty
\* string and the request's output_gcs_uri is None or the empty string; a
\* non-empty output_gcs_uri supplied by the caller, and every other field of
\* the request, is left unchanged.
C22_NonEmptyCallerUriKept ==
    gOp = "request" =>
        /\ IF /\ gcs_bucket.given /\ Len(gcs_bucket.value) > 0
              /\ ~(gArgs.output_gcs_uri.given /\ Len(gArgs.output_gcs_uri.value) > 0)
           THEN SetFromBucket
           ELSE gRequests[1].output_gcs_uri = gArgs.output_gcs_uri
        /\ OtherFieldsUnchanged

\* a request without output_gcs_uri went through a generator that has a
\* bucket: the URI was set, and the generation and the downloads are over
C22_Witness ==
    /\ gOp = "request"
    /\ gcs_bucket = Str(<<"b">>)
    /\ gArgs.output_gcs_uri = NoneStr
    /\ gRequests[1].output_gcs_uri = Str(<<"g", "s", ":", "/", "/", "b", "/videos/", "1", "/">>)
    /\ gOut.kind = "list"


(* ---- properties of VideoGenerator ---- *)

\* a VideoRequest(...) construction is over and its image_path does not
\* exist or its aspect ratio is not a supported one
ConstructedWithInvalidImageOrRatio ==
    /\ construct.outcome # "none"
    /\ \/ ~(construct.args.image_path = "None" \/ PathExists(construct.args.image_path))
       \/ construct.args.aspect_ratio \notin {"16:9", "9:16", "1:1"}

\* generate_from_prompt or generate_from_image was called with an image that
\* does not exist or an unsupported aspect ratio
CalledWithInvalidRequest ==
    /\ gOp \in {"prompt", "image"}
    /\ \/ gArgs.image_path = "missing"
       \/ gArgs.aspect_ratio \notin {"16:9", "9:16", "1:1"}

\* the call raised the validation error without a provider having been
\* invoked or a file written
FailedBeforeAnyProvider ==
    /\ gOut = GenRaised("ValidationError")
    /\ gInvoked = 0
    /\ written = EmptyBag
    /\ downloads = <<>>

NotGsUri(v) == v.given /\ ~StartsWith(v.value, GsPrefix)
NonEmptyNotGsUri(v) == v.given /\ Len(v.value) > 0 /\ ~StartsWith(v.value, GsPrefix)

\* C11 as stated: constructing a VideoRequest with an image_path that does
\* not exist, an output_gcs_uri that does not start with gs://, or an
\* unsupported aspect ratio raises at construction, so generate_from_prompt
\* and generate_from_image fail before any provider is invoked.
C11_InvalidRequestRaises ==
    /\ ConstructedWithInvalidImageOrRatio => construct.outcome = "ValidationError"
    /\ (construct.outcome # "none" /\ NotGsUri(construct.args.output_gcs_uri))
          => construct.outcome = "ValidationError"
    /\ CalledWithInvalidRequest => FailedBeforeAnyProvider

\* C11 amended: the same, for an output_gcs_uri that is not empty and does
\* not start with gs://; the empty string is taken as no URI and accepted.
C11_InvalidNonEmptyRequestRaises ==
    /\ ConstructedWithInvalidImageOrRatio => construct.outcome = "ValidationError"
    /\ (construct.outcome # "none" /\ NonEmptyNotGsUri(construct.args.output_gcs_uri))
          => construct.outcome = "ValidationError"
    /\ CalledWithInvalidRequest => FailedBeforeAnyProvider
    /\ (/\ construct.outcome # "none"
        /\ construct.args.output_gcs_uri = Str(<<>>)
        /\ VideoRequestOk([construct.args EXCEPT !.output_gcs_uri = NoneStr]))
       => construct.outcome = "request"

\* generate_from_image was called with a valid prompt and an image that does
\* not exist, and has raised
C11_Witness ==
    /\ gOp = "image"
    /\ gArgs.image_path = "missing"
    /\ gArgs.aspect_ratio = "16:9"
    /\ gArgs.prompt_len = PromptMinLength
    /\ gOut.kind = "exception"


\* generate_from_prompt or generate_from_image is over and the generation
\* call had returned its list of URIs
SingleCallOverWithUris ==
    /\ gOp \in {"prompt", "image"}
    /\ gOut.kind # "pending"
    /\ Len(gUris) = 1
    /\ gUris[1].kind = "list"

\* C14: generate_from_prompt and generate_from_image return exactly one local
\* path per URI the generation call returned, in the order of the URIs: path
\* k is the one the download of URI k produced.
C14_OnePathPerUri ==
    SingleCallOverWithUris =>
        /\ gOut.kind = "list"
        /\ Len(gOut.value) = Len(gUris[1].uris)
        /\ \A k \in 1..Len(gOut.value) :
              /\ downloads[k].uri = gUris[1].uris[k]
              /\ downloads[k].path = gOut.value[k]

\* batch_generate_from_prompts was called with valid prompts and is over
BatchCallOver ==
    /\ gOp = "batch"
    /\ gOut.kind # "pending"
    /\ gOut.error # "ValidationError"

\* the generation of prompt i raised, or the download of one of its videos
\* wrote no file
PromptFailed(i) ==
    \/ gUris[i].kind = "exception"
    \/ \E k \in 1..Len(downloads) : downloads[k].request = i /\ ~downloads[k].wrote

\* C15: in batch_generate_from_prompts a failure while processing one prompt
\* (its generation or the download of its videos) does not abort the batch:
\* the call returns one list of paths per prompt, in prompt order, with an
\* empty list for the failed prompt.
C15_FailedPromptYieldsEmptyList ==
    BatchCallOver =>
        /\ gOut.kind = "list"
        /\ Len(gOut.value) = Len(gArgs.prompts)
        /\ \A i \in 1..Len(gOut.value) :
              /\ PromptFailed(i) => gOut.value[i] = <<>>
              /\ ~PromptFailed(i) => Len(gOut.value[i]) = Len(UrisOf(gUris[i]))

\* C16: files get unique names built from a timestamp and an index: over any
\* sequence of generations, the requests of one batch handled within the
\* same second included, no two videos are written to the same path.
C16_NoPathWrittenTwice ==
    \A path \in BagToSet(written) : CopiesIn(path, written) = 1

\* C20: _download_video chooses the download method from the URI scheme:
\* file:// goes to the API client's download_video, gs:// to the GCS download
\* of the generator when a GCS client is configured and to download_video
\* otherwise, anything else is fetched as an HTTP URL; exactly one method is
\* used per URI.
C20_MethodChosenByScheme ==
    \A k \in 1..Len(downloads) :
       LET d == downloads[k]
       IN /\ StartsWith(d.uri.head, <<"f", "i", "l", "e", ":", "/", "/">>)
                => d.method = "download_video"
          /\ StartsWith(d.uri.head, <<"g", "s", ":", "/", "/">>)
                => d.method = IF gcs_client THEN "_download_from_gcs" ELSE "download_video"
          /\ (/\ ~StartsWith(d.uri.head, <<"f", "i", "l", "e", ":", "/", "/">>)
              /\ ~StartsWith(d.uri.head, <<"g", "s", ":", "/", "/">>))
                => d.method = "_download_from_url"

\* the request a recorded _download_video call was made for
RequestOf(d) == IF gOp = "download" THEN gArgs.request ELSE gRequests[d.request]

\* how many videos the generation behind a recorded download produced (one
\* when _download_video was called on its own)
VideosProduced(d) == IF gOp = "download" THEN 1 ELSE Len(UrisOf(gUris[d.request]))

\* C21: with output_filename set, _download_video names the file
\* <output_filename>.mp4 when the generation produced one video and
\* <output_filename>_<index>.mp4 when it produced several; without
\* output_filename the name is video_<timestamp>_<index>.mp4; in every case a
\* path directly inside config.output_dir is returned.
C21_NamedByOutputFilename ==
    \A k \in 1..Len(downloads) :
       LET d == downloads[k]
           output_filename == RequestOf(d).output_filename
       IN /\ d.outcome # "NameError"
          /\ d.path.dir = "output_dir"
          /\ IF output_filename.given /\ Len(output_filename.value) > 0
             THEN d.path.name = IF VideosProduced(d) > 1
                                THEN output_filename.value \o <<ToString(d.index)>>
                                ELSE output_filename.value
             ELSE /\ Len(d.path.name) = 3
                  /\ d.path.name[1] = "video"
                  /\ d.path.name[3] = ToString(d.index)

\* the paths a finished call of generate_from_prompt, generate_from_image or
\* batch_generate_from_prompts handed back
ReturnedPaths ==
    IF gOp = "batch"
    THEN UNION {{gOut.value[i][k] : k \in 1..Len(gOut.value[i])} : i \in 1..Len(gOut.value)}
    ELSE {gOut.value[k] : k \in 1..Len(gOut.value)}

\* C25: every path returned by generate_from_prompt, generate_from_image or
\* batch_generate_from_prompts is the path of a file that a successful
\* download or copy wrote; a failed download yields no returned path.
C25_ReturnedPathsWereWritten ==
    (gOp \in {"prompt", "image", "batch"} /\ gOut.kind = "list") =>
        \A path \in ReturnedPaths : BagIn(path, written)


(* ---- VEOConfig (veo/models/config.py) and the generate command ---- *)

\* a keyword argument holding a string, and one that was not passed
StrKw(value) == [given |-> TRUE, value |-> value]
NoStrKw == [given |-> FALSE, value |-> ""]

\* the value of a field: the keyword argument, or the default of the field
FieldValue(kw, default) == IF kw.given THEN kw.value ELSE default

\* a field that has a lower limit only
DefaultDurationFieldOkUnbounded(v) == v >= 1

\* Field(8, ge=1, le=8) on default_duration
DefaultDurationFieldOk(v) == v >= 1 /\ v <= DefaultDurationMax

\* Field(1, ge=1, le=4) on default_number_of_videos
DefaultNumberOfVideosFieldOk(v) == v >= 1 /\ v <= DefaultNumberOfVideosMax

\* Field(3, ge=1, le=10) on max_concurrent_operations
MaxConcurrentOperationsFieldOk(v) == v >= 1 /\ v <= MaxConcurrentOperationsMax

\* Field(3, ge=1, le=10) on retry_attempts
RetryAttemptsFieldOk(v) == v >= 1 /\ v <= RetryAttemptsMax

\* Field(30, ge=1, le=300) on retry_delay
RetryDelayFieldOk(v) == v >= 1 /\ v <= RetryDelayMax

\* the fields VEOConfig declares, each with its keyword argument or its
\* default.  The class declares no api_key and no project_id: pydantic drops
\* the keyword arguments that name no field.
VEOConfigFields(kwargs) ==
    [default_aspect_ratio |-> FieldValue(kwargs.default_aspect_ratio, "16:9"),
     default_duration |-> FieldValue(kwargs.default_duration, DefaultDurationDefault),
     default_number_of_videos |->
         FieldValue(kwargs.default_number_of_videos, DefaultNumberOfVideosDefault),
     max_concurrent_operations |->
         FieldValue(kwargs.max_concurrent_operations, MaxConcurrentOperationsDefault),
     retry_attempts |-> RetryAttemptsDefault,
     retry_delay |-> RetryDelayDefault]

VEOConfigOk(fields) ==
    /\ AspectRatioFieldOk(fields.default_aspect_ratio)
    /\ DefaultDurationFieldOk(fields.default_duration)
    /\ DefaultNumberOfVideosFieldOk(fields.default_number_of_videos)
    /\ MaxConcurrentOperationsFieldOk(fields.max_concurrent_operations)
    /\ RetryAttemptsFieldOk(fields.retry_attempts)
    /\ RetryDelayFieldOk(fields.retry_delay)

\* VEOConfig(**kwargs): the object, or the ValidationError of pydantic
VEOConfigNew(kwargs) ==
    IF VEOConfigOk(VEOConfigFields(kwargs))
    THEN [outcome |-> "config", fields |-> VEOConfigFields(kwargs)]
    ELSE [outcome |-> "ValidationError"]

\* hasattr(obj, name)
HasAttr(obj, name) == name \in DOMAIN obj

\* os.getenv(name, default)
getenv(name, default) == IF environ[name].set THEN environ[name].value ELSE default

\* int(s) on the strings the environments of the model hold; on any other
\* string int raises ValueError
IntStrings == ("1" :> 1) @@ ("6" :> 6) @@ ("8" :> 8) @@ ("9" :> 9)

\* VEOConfig.from_env(): AspectRatio(...) and int(...) are evaluated first and
\* raise ValueError on a string they do not know; the variables read are the
\* VEO_ ones, and no keyword argument is built from GOOGLE_API_KEY,
\* GOOGLE_CLOUD_PROJECT, DEFAULT_ASPECT_RATIO or DEFAULT_DURATION
from_env ==
    LET aspect_ratio == getenv("VEO_DEFAULT_ASPECT_RATIO", "16:9")
        duration == getenv("VEO_DEFAULT_DURATION", "8")
    IN IF aspect_ratio \notin AspectRatio \/ duration \notin DOMAIN IntStrings
       THEN [outcome |-> "ValueError"]
       ELSE VEOConfigNew([default_aspect_ratio |-> StrKw(aspect_ratio),
                          default_duration |-> IntArg(IntStrings[duration]),
                          default_number_of_videos |-> IntArg(IntStrings["1"]),
                          max_concurrent_operations |-> NoneArg])

\* VEOConfig(**kwargs) called by a user of the package
new_VEOConfig(kwargs) ==
    /\ veoConfig = NoVEOConfig
    /\ veoConfig' = [call |-> "VEOConfig", kwargs |-> kwargs, result |-> VEOConfigNew(kwargs)]
    /\ UNCHANGED <<environ, cli>>
    /\ UNCHANGED configFrame

\* VEOConfig.from_env() called by a user of the package
call_from_env ==
    /\ veoConfig = NoVEOConfig
    /\ veoConfig' = [call |-> "from_env", result |-> from_env]
    /\ UNCHANGED <<environ, cli>>
    /\ UNCHANGED configFrame

\* the generate command up to VideoGenerator(config): from_env, then
\* `if not config.api_key`.  Reading an attribute the object does not have
\* raises AttributeError; every exception ends in typer.Exit(1).
cli_generate ==
    /\ veoConfig = NoVEOConfig
    /\ veoConfig' = [call |-> "from_env", result |-> from_env]
    /\ cli' = IF veoConfig'.result.outcome # "config" THEN "Exit"
              ELSE IF ~HasAttr(veoConfig'.result.fields, "api_key") THEN "Exit"
              ELSE IF veoConfig'.result.fields["api_key"] = "" THEN "Exit"
              ELSE "generating"
    /\ UNCHANGED environ
    /\ UNCHANGED configFrame

ConfigKwargs ==
    [api_key : {NoStrKw, StrKw("test_key")},
     default_duration : {NoneArg} \cup {IntArg(n) : n \in {0, 1, DefaultDurationMax,
                                                          DefaultDurationMax + 1, 10}},
     default_number_of_videos :
         {NoneArg} \cup {IntArg(n) : n \in {0, 1, DefaultNumberOfVideosMax,
                                            DefaultNumberOfVideosMax + 1}},
     max_concurrent_operations :
         {NoneArg} \cup {IntArg(n) : n \in {0, 1, MaxConcurrentOperationsMax,
                                            MaxConcurrentOperationsMax + 1}},
     default_aspect_ratio : {NoStrKw, StrKw("9:16"), StrKw("invalid")}]

Environs ==
    [GOOGLE_API_KEY : {EnvUnset, EnvValue("test_key")},
     GOOGLE_CLOUD_PROJECT : {EnvUnset, EnvValue("test_project")},
     DEFAULT_ASPECT_RATIO : {EnvUnset, EnvValue("9:16")},
     DEFAULT_DURATION : {EnvUnset, EnvValue("6")},
     VEO_DEFAULT_ASPECT_RATIO : {EnvUnset, EnvValue("1:1"), EnvValue("4:3")},
     VEO_DEFAULT_DURATION : {EnvUnset, EnvValue("6"), EnvValue("9"), EnvValue("x")}]

InitConfig ==
    /\ DefaultClient
    /\ GeneratorIdle
    /\ environ \in Environs
    /\ veoConfig = NoVEOConfig
    /\ cli = "none"
    /\ CleanupIdle
    /\ ScriptIdle
    /\ FramesIdle

NextConfig ==
    \/ veoConfig = NoVEOConfig /\ \E kwargs \in ConfigKwargs : new_VEOConfig(kwargs)
    \/ call_from_env
    \/ cli_generate

SpecConfig == InitConfig /\ [][NextConfig]_vars

\* C12: VEOConfig(...) raises a validation error when default_duration is
\* outside 1..8, default_number_of_videos outside 1..4,
\* max_concurrent_operations outside 1..10 or default_aspect_ratio is not a
\* supported ratio, and a config built with only an api_key is valid.
C12_ConfigRanges ==
    veoConfig.call = "VEOConfig" =>
        LET kw == veoConfig.kwargs
        IN /\ (\/ kw.default_duration.given /\ kw.default_duration.value \notin 1..8
               \/ kw.default_number_of_videos.given
                     /\ kw.default_number_of_videos.value \notin 1..4
               \/ kw.max_concurrent_operations.given
                     /\ kw.max_concurrent_operations.value \notin 1..10
               \/ kw.default_aspect_ratio.given
                     /\ kw.default_aspect_ratio.value \notin {"16:9", "9:16", "1:1"})
              => veoConfig.result.outcome = "ValidationError"
           /\ (/\ kw.api_key.given
               /\ ~kw.default_duration.given
               /\ ~kw.default_number_of_videos.given
               /\ ~kw.max_concurrent_operations.given
               /\ ~kw.default_aspect_ratio.given)
              => veoConfig.result.outcome = "config"

\* VEOConfig(api_key="test_key", default_duration=10) has raised
C12_Witness ==
    /\ veoConfig.call = "VEOConfig"
    /\ veoConfig.kwargs.api_key = StrKw("test_key")
    /\ veoConfig.kwargs.default_duration = IntArg(10)
    /\ ~veoConfig.kwargs.default_number_of_videos.given
    /\ ~veoConfig.kwargs.max_concurrent_operations.given
    /\ ~veoConfig.kwargs.default_aspect_ratio.given
    /\ veoConfig.result.outcome = "ValidationError"

\* from_env returned a config for the environment the process runs in
ConfigFromEnv == veoConfig.call = "from_env" /\ veoConfig.result.outcome = "config"

\* the variable is set and the config has an attribute of that name holding
\* its value
ReadableAs(variable, attribute) ==
    environ[variable].set =>
        /\ HasAttr(veoConfig.result.fields, attribute)
        /\ veoConfig.result.fields[attribute] = environ[variable].value

\* C13: in the config from_env returns, GOOGLE_API_KEY is readable as
\* config.api_key, GOOGLE_CLOUD_PROJECT as config.project_id,
\* DEFAULT_ASPECT_RATIO as config.default_aspect_ratio and DEFAULT_DURATION
\* as config.default_duration, and the CLI goes on to generation when the API
\* key is set.
C13_EnvironmentReadIntoConfig ==
    ConfigFromEnv =>
        /\ ReadableAs("GOOGLE_API_KEY", "api_key")
        /\ ReadableAs("GOOGLE_CLOUD_PROJECT", "project_id")
        /\ ReadableAs("DEFAULT_ASPECT_RATIO", "default_aspect_ratio")
        /\ environ["DEFAULT_DURATION"].set =>
              veoConfig.result.fields.default_duration
                 = IntStrings[environ["DEFAULT_DURATION"].value]
        /\ (cli # "none" /\ environ["GOOGLE_API_KEY"].set) => cli = "generating"


(* ---- VideoGenerator.cleanup_old_videos ---- *)

\* self.config.output_dir.glob("*.mp4"): the names that end in .mp4
GlobMp4(name) == name[Len(name)] = ".mp4"

\* a comparison that takes the file at the cutoff too
OlderThanOrAt(mtime, cutoff_time) == mtime <= cutoff_time

\* file_path.stat().st_mtime < cutoff_time
OlderThan(mtime, cutoff_time) == mtime < cutoff_time

\* cleanup_old_videos(days_old): cutoff_time = time.time() - days_old * 86400;
\* every *.mp4 entry older than the cutoff is unlinked and counted
cleanup_old_videos(days_old) ==
    /\ ~cleanup.called
    /\ LET cutoff_time == now - (days_old * SecondsPerDay)
           removed == {name \in FileNames :
                          /\ files[name].exists
                          /\ GlobMp4(name)
                          /\ OlderThan(files[name].mtime, cutoff_time)}
       IN /\ files' = [name \in FileNames |->
                          IF name \in removed THEN NoFile ELSE files[name]]
          /\ cleanup' = [called |-> TRUE, days_old |-> days_old, at |-> now,
                         before |-> files, removed_count |-> Cardinality(removed)]
    /\ UNCHANGED cleanupFrame

DaysOldInputs == 0..MaxDays \cup {DaysOldDefault}

\* modification times around the cutoff of every days_old of the model
Mtimes ==
    {t \in UNION {{0 - (d * SecondsPerDay) - 1, 0 - (d * SecondsPerDay),
                    0 - (d * SecondsPerDay) + 1} : d \in DaysOldInputs} : t <= 0}

InitCleanup ==
    /\ DefaultClient
    /\ GeneratorIdle
    /\ ConfigIdle
    /\ files \in [FileNames -> {NoFile} \cup {File(t) : t \in Mtimes}]
    /\ cleanup = NoCleanup
    /\ ScriptIdle
    /\ FramesIdle

NextCleanup == \E days_old \in DaysOldInputs : cleanup_old_videos(days_old)

SpecCleanup == InitCleanup /\ [][NextCleanup]_vars

\* C18: cleanup_old_videos(N) deletes exactly the .mp4 files of the output
\* directory whose modification time is more than N days in the past, leaves
\* every newer file and every file that is not .mp4 as it was, and returns
\* the number of files it deleted.
C18_CleanupDeletesOldMp4 ==
    cleanup.called =>
        /\ \A name \in FileNames :
              IF /\ cleanup.before[name].exists
                 /\ name[Len(name)] = ".mp4"
                 /\ cleanup.at - cleanup.before[name].mtime > cleanup.days_old * 86400
              THEN ~files[name].exists
              ELSE files[name] = cleanup.before[name]
        /\ cleanup.removed_count =
              Cardinality({name \in FileNames :
                              cleanup.before[name].exists /\ ~files[name].exists})

\* cleanup_old_videos(7) removed the one .mp4 file that was a second older
\* than seven days and kept the .mp4 file that was seven days old to the
\* second, as well as an older file that is not .mp4
C18_Witness ==
    /\ cleanup.called
    /\ cleanup.days_old = 7
    /\ cleanup.removed_count = 1
    /\ cleanup.before[<<"old_video", ".mp4">>] = File(0 - (7 * 86400) - 1)
    /\ cleanup.before[<<"video_0_0", ".mp4">>] = File(0 - (7 * 86400))
    /\ cleanup.before[<<"notes", ".txt">>] = File(0 - (7 * 86400) - 1)
    /\ ~files[<<"old_video", ".mp4">>].exists
    /\ files[<<"video_0_0", ".mp4">>].exists
    /\ files[<<"notes", ".txt">>].exists


(* ---- scripts/generate_video.py, scripts/generate_video_from_image.py ---- *)

\* what an operation object shows: "running" while done is false,
\* "succeeded" when done with a result, "failed" when done without one
OperationStates == {"running", "succeeded", "failed"}

\* a loop test that lets the script through whatever the operation shows
OperationDoneUnchecked(observed) == TRUE

\* operation.done
OperationDone(observed) == observed # "running"

\* `while not operation.done` on the operation just received: the script
\* stays in the loop, or leaves it for the processing of the result
AfterOperation(observed) == IF OperationDone(observed) THEN "saving" ELSE "polling"

\* operation = client.models.generate_videos(...) returns the operation as
\* the service holds it at that moment
generate_videos(number_of_videos, state) ==
    /\ script.pc = "start"
    /\ server' = state
    /\ script' = [script EXCEPT !.pc = AfterOperation(state), !.observed = state,
                                !.number_of_videos = number_of_videos]
    /\ UNCHANGED pollFrame

\* client.models.generate_videos raises: the handler prints and re-raises
generate_videos_fails ==
    /\ script.pc = "start"
    /\ script' = [script EXCEPT !.pc = "raised"]
    /\ UNCHANGED server
    /\ UNCHANGED pollFrame

\* the service finishes the operation, with a result or with an error
operation_finishes(state) ==
    /\ server = "running"
    /\ state \in {"succeeded", "failed"}
    /\ script.pc \in {"polling"}
    /\ server' = state
    /\ UNCHANGED script
    /\ UNCHANGED pollFrame

\* one pass of the loop: time.sleep(20), then
\* operation = client.operations.get(operation)
poll ==
    /\ script.pc = "polling"
    /\ script.polls < MaxPolls
    /\ script' = [script EXCEPT !.pc = AfterOperation(server), !.observed = server,
                                !.polls = @ + 1, !.slept = @ + PollInterval]
    /\ UNCHANGED server
    /\ UNCHANGED pollFrame

\* client.operations.get raises after the sleep
poll_fails ==
    /\ script.pc = "polling"
    /\ script.polls < MaxPolls
    /\ script' = [script EXCEPT !.pc = "raised", !.polls = @ + 1,
                                !.slept = @ + PollInterval]
    /\ UNCHANGED server
    /\ UNCHANGED pollFrame

\* one pass of the loop over operation.result.generated_videos: the video is
\* downloaded and saved; after the last one the function returns
save_video ==
    /\ script.pc = "saving"
    /\ script.observed = "succeeded"
    /\ script' = [script EXCEPT !.saved = @ + 1,
                                !.pc = IF script.saved + 1 = script.number_of_videos
                                       THEN "returned" ELSE "saving"]
    /\ UNCHANGED server
    /\ UNCHANGED pollFrame

\* the operation has no result (operation.result is None), or the download
\* or the save of a video raises
save_video_fails ==
    /\ script.pc = "saving"
    /\ script' = [script EXCEPT !.pc = "raised"]
    /\ UNCHANGED server
    /\ UNCHANGED pollFrame

InitPoll ==
    /\ DefaultClient
    /\ GeneratorIdle
    /\ ConfigIdle
    /\ CleanupIdle
    /\ ScriptIdle
    /\ FramesIdle

NextPoll ==
    \/ \E n \in 1..MaxVideos, state \in OperationStates : generate_videos(n, state)
    \/ generate_videos_fails
    \/ \E state \in OperationStates : operation_finishes(state)
    \/ poll
    \/ poll_fails
    \/ save_video
    \/ save_video_fails

SpecPoll == InitPoll /\ [][NextPoll]_vars

\* C19: the script polls at a fixed interval, with no timeout and no
\* cancellation: it reads and saves the videos only after it has seen
\* operation.done true, it does not return before that, it has slept 20
\* seconds per poll, and as long as the operation it sees is not done it
\* stays in the loop however long it has waited.
C19_SavesOnlyAfterDone ==
    /\ (script.pc \in {"saving", "returned"} \/ script.saved > 0)
          => script.observed \in {"succeeded", "failed"}
    /\ script.pc = "returned"
          => script.observed = "succeeded" /\ script.saved = script.number_of_videos
    /\ script.slept = 20 * script.polls
    /\ (script.observed = "running" /\ script.pc # "raised") => script.pc = "polling"

\* the script returned after two polls, the first of which showed an
\* operation still running
C19_Witness ==
    /\ script.pc = "returned"
    /\ script.polls = 2
    /\ script.slept = 40
    /\ script.saved = script.number_of_videos

====
